---- MODULE Spec2Model ----
(***************************************************************************)
(* PlantGuard AI: the Flask application (app.py), its MongoDB gateway      *)
(* (db.py) and the catalog / upload helpers (utils.py).                    *)
(*                                                                         *)
(* Strings are sequences of one-character strings, so that strip(),        *)
(* lower() and rsplit() are computed and not assumed.                      *)
(* A request handler that performs several store / file operations is      *)
(* split at those operations; handlers of different requests interleave.   *)
(***************************************************************************)
EXTENDS Integers, Sequences, FiniteSets, TLC

VARIABLES users, predictions, files, slots, last, tokens, dbUp, now, nextId,
          nreq, probe

vars == <<users, predictions, files, slots, last, tokens, dbUp, now, nextId,
          nreq, probe>>

----------------------------------------------------------------------------
(* Bounds of the model *)

MaxAccountRequests == 3
MaxPredictionRequests == 2
MaxWorkers == 2
MaxTime == 30
TickHours == 24

(* Program constants *)

NumClasses == 39
DiseaseRows == 39
SupplementRows == 39
TokenTTLHours == 24
DefaultLimit == 20

Workers == 1..MaxWorkers

----------------------------------------------------------------------------
(* Python string helpers *)

UpperToLower == [A |-> "a", G |-> "g", J |-> "j", N |-> "n", P |-> "p"]

LowerChar(c) == IF c \in DOMAIN UpperToLower THEN UpperToLower[c] ELSE c

Lower(s) == [i \in 1..Len(s) |-> LowerChar(s[i])]

IsSpace(c) == c = " "

RECURSIVE LStrip(_)
LStrip(s) == IF s # <<>> /\ IsSpace(Head(s)) THEN LStrip(Tail(s)) ELSE s

RECURSIVE RStrip(_)
RStrip(s) ==
    IF s # <<>> /\ IsSpace(s[Len(s)]) THEN RStrip(SubSeq(s, 1, Len(s) - 1)) ELSE s

Strip(s) == RStrip(LStrip(s))

Contains(s, c) == \E i \in 1..Len(s) : s[i] = c

(* s.rsplit(c, 1)[-1] *)
RSplitLast(s, c) ==
    IF Contains(s, c)
    THEN LET k == CHOOSE i \in 1..Len(s) :
                      s[i] = c /\ \A j \in (i + 1)..Len(s) : s[j] # c
         IN SubSeq(s, k + 1, Len(s))
    ELSE s

----------------------------------------------------------------------------
(* Inputs of the requests *)

EmailA == <<"a">>
EmailAPadded == <<" ", "A">>
EmailB == <<"b">>
Blank == <<" ">>
Empty == <<>>

Names == {<<"n">>, Blank}
Emails == {EmailA, EmailAPadded, EmailB, Empty}
SignupPasswords == {<<"p">>, Empty}
LoginPasswords == {<<"p">>, <<"q">>, Empty}

(* request.get_json(silent=True) is None when the body is not JSON *)
NoBody == [json |-> FALSE, name |-> Empty, email |-> Empty, password |-> Empty]

SignupBodies ==
    {NoBody} \cup
    {[json |-> TRUE, name |-> n, email |-> e, password |-> p] :
        n \in Names, e \in Emails, p \in SignupPasswords}

LoginBodies ==
    {NoBody} \cup
    {[json |-> TRUE, name |-> Empty, email |-> e, password |-> p] :
        e \in Emails, p \in LoginPasswords}

----------------------------------------------------------------------------
(* Identifiers, password hashes and tokens *)

(* str(ObjectId) *)
StrId(oid) == [hex |-> oid]

NoId == StrId(0)

Salts == {"s1"}

(* bcrypt.generate_password_hash(password) with a fresh salt *)
generate_password_hash(password, salt) ==
    [salt |-> salt, digest |-> <<salt, password>>]

check_password_hashAny(pw_hash, password) == pw_hash.salt \in Salts

check_password_hash(pw_hash, password) ==
    pw_hash.digest = <<pw_hash.salt, password>>

JWT_SECRET_KEY == "secret"

(* create_access_token(identity) under JWT_ACCESS_TOKEN_EXPIRES *)
create_access_token(identity) ==
    [sub |-> identity, exp |-> now + TokenTTLHours, key |-> JWT_SECRET_KEY]

NoToken == [sub |-> NoId, exp |-> 0, key |-> "none"]

ForgedToken == [sub |-> StrId(1), exp |-> MaxTime + TokenTTLHours, key |-> "attacker"]

----------------------------------------------------------------------------
(* db.py: the users collection *)

find_user_by_email(email) == {u \in users : u.email = email}

(* users_col.create_index("email", unique=True): insert_one raises
   DuplicateKeyError on an email that is already stored *)
UniqueEmailIndexAdmits(doc) == \A u \in users : u.email # doc.email

create_user(name, email, hashed_password) ==
    [_id |-> nextId, name |-> name, email |-> email,
     password |-> hashed_password, created_at |-> now]

----------------------------------------------------------------------------
(* Request bookkeeping *)

Idle == [pc |-> "idle"]

CanStart(w) ==
    /\ slots[w].pc = "idle"
    /\ \A v \in Workers : v < w => slots[v].pc # "idle"

NormEmailKeepCase(body) == Strip(body.email)

NormEmail(body) == Lower(Strip(body.email))

Registered(email) == \E u \in users : u.email = email

(* a response of /signup; existed and up record whether the email was
   registered when the request arrived and whether the store answered *)
SignupResponse(body, existed, status, success, user_id) ==
    [route |-> "signup", status |-> status, success |-> success,
     req |-> body, existed |-> existed, up |-> dbUp, user_id |-> user_id]

----------------------------------------------------------------------------
(* app.py: POST /signup *)

(* lines 236-249: parse, validate, duplicate check *)
SignupCheck(w, body) ==
    /\ CanStart(w)
    /\ nreq < MaxAccountRequests
    /\ nreq' = nreq + 1
    /\ LET name == Strip(body.name)
           email == NormEmail(body)
           password == body.password
           existed == body.json /\ Registered(Lower(Strip(body.email)))
       IN IF ~body.json
          THEN /\ last' = SignupResponse(body, existed, 400, FALSE, NoId)
               /\ slots' = slots
          ELSE IF name = Empty \/ email = Empty \/ password = Empty
          THEN /\ last' = SignupResponse(body, existed, 400, FALSE, NoId)
               /\ slots' = slots
          ELSE IF ~dbUp
          THEN /\ last' = SignupResponse(body, existed, 500, FALSE, NoId)
               /\ slots' = slots
          ELSE IF find_user_by_email(email) # {}
          THEN /\ last' = SignupResponse(body, existed, 409, FALSE, NoId)
               /\ slots' = slots
          ELSE /\ slots' = [slots EXCEPT ![w] =
                              [pc |-> "create", route |-> "signup", body |-> body,
                               name |-> name, email |-> email,
                               password |-> password, existed |-> existed]]
               /\ last' = last
    /\ UNCHANGED <<users, predictions, files, tokens, dbUp, now, nextId, probe>>

(* lines 251-255: hash and store *)
SignupCreate(w) ==
    /\ slots[w].pc = "create"
    /\ \E salt \in Salts :
         LET s == slots[w]
             hashed_pw == generate_password_hash(s.password, salt)
             doc == create_user(s.name, s.email, hashed_pw)
         IN IF dbUp /\ UniqueEmailIndexAdmits(doc)
            THEN /\ users' = users \cup {doc}
                 /\ nextId' = nextId + 1
                 /\ last' = SignupResponse(s.body, s.existed, 201, TRUE, StrId(doc._id))
            ELSE /\ last' = SignupResponse(s.body, s.existed, 500, FALSE, NoId)
                 /\ UNCHANGED <<users, nextId>>
    /\ slots' = [slots EXCEPT ![w] = Idle]
    /\ UNCHANGED <<predictions, files, tokens, dbUp, now, nreq, probe>>

----------------------------------------------------------------------------
(* app.py: POST /login and GET /protected *)

LoginResponse(body, up, status, success, token, user) ==
    [route |-> "login", status |-> status, success |-> success,
     req |-> body, up |-> up, access_token |-> token, user |-> user]

NoUser == [id |-> NoId, name |-> Empty, email |-> Empty]

login(body) ==
    /\ nreq < MaxAccountRequests
    /\ nreq' = nreq + 1
    /\ LET email == NormEmail(body)
           password == body.password
       IN IF ~body.json
          THEN /\ last' = LoginResponse(body, dbUp, 400, FALSE, NoToken, NoUser)
               /\ tokens' = tokens
          ELSE IF email = Empty \/ password = Empty
          THEN /\ last' = LoginResponse(body, dbUp, 400, FALSE, NoToken, NoUser)
               /\ tokens' = tokens
          ELSE IF ~dbUp
          THEN /\ last' = LoginResponse(body, dbUp, 500, FALSE, NoToken, NoUser)
               /\ tokens' = tokens
          ELSE IF find_user_by_email(email) = {}
          THEN /\ last' = LoginResponse(body, dbUp, 401, FALSE, NoToken, NoUser)
               /\ tokens' = tokens
          ELSE LET user == CHOOSE u \in find_user_by_email(email) : TRUE
               IN IF ~check_password_hash(user.password, password)
                  THEN /\ last' = LoginResponse(body, dbUp, 401, FALSE, NoToken, NoUser)
                       /\ tokens' = tokens
                  ELSE LET access_token == create_access_token(StrId(user._id))
                       IN /\ last' = LoginResponse(body, dbUp, 200, TRUE, access_token,
                                        [id |-> StrId(user._id), name |-> user.name,
                                         email |-> user.email])
                          /\ tokens' = tokens \cup
                                 {[jwt |-> access_token, owner |-> user._id]}
    /\ UNCHANGED <<users, predictions, files, slots, dbUp, now, nextId, probe>>

NoHeader == [present |-> FALSE, jwt |-> NoToken]

Headers ==
    {NoHeader} \cup {[present |-> TRUE, jwt |-> ForgedToken]}
    \cup {[present |-> TRUE, jwt |-> t.jwt] : t \in tokens}

(* @jwt_required() with flask_jwt_extended's default loaders: a missing
   header is answered 401, a token that fails verification 422, an expired
   token 401 *)
jwt_required(header) ==
    IF ~header.present THEN 401
    ELSE IF header.jwt.key # JWT_SECRET_KEY THEN 422
    ELSE IF header.jwt.exp <= now THEN 401
    ELSE 200

get_jwt_identity(header) == header.jwt.sub

protected(header) ==
    /\ nreq < MaxAccountRequests
    /\ nreq' = nreq + 1
    /\ LET status == jwt_required(header)
       IN last' = [route |-> "protected", status |-> status,
                   success |-> (status = 200), req |-> header, at |-> now,
                   user_id |-> IF status = 200 THEN get_jwt_identity(header)
                               ELSE NoId]
    /\ UNCHANGED <<users, predictions, files, slots, tokens, dbUp, now, nextId, probe>>

----------------------------------------------------------------------------
(* utils.py: catalog tables, classifier, upload helpers *)

DiseaseCell(column, row) == [table |-> "disease_info", column |-> column, row |-> row]

SupplementCell(column, row) == [table |-> "supplement_info", column |-> column, row |-> row]

HasRowPositional(rows, index) == index \in (0 - rows)..(rows - 1)

(* series[index] on a RangeIndex: label lookup, KeyError outside 0..rows-1 *)
HasRow(rows, index) == index \in 0..(rows - 1)

NoInfo ==
    [disease_name |-> Empty, description |-> Empty, possible_steps |-> Empty,
     disease_image_url |-> Empty,
     supplement |-> [name |-> Empty, image_url |-> Empty, buy_link |-> Empty]]

get_disease_info(index) ==
    IF HasRow(DiseaseRows, index) /\ HasRow(SupplementRows, index)
    THEN [ok |-> TRUE,
          info |-> [disease_name |-> DiseaseCell("disease_name", index),
                    description |-> DiseaseCell("description", index),
                    possible_steps |-> DiseaseCell("Possible Steps", index),
                    disease_image_url |-> DiseaseCell("image_url", index),
                    supplement |->
                        [name |-> SupplementCell("supplement name", index),
                         image_url |-> SupplementCell("supplement image", index),
                         buy_link |-> SupplementCell("buy link", index)]]]
    ELSE [ok |-> FALSE, info |-> NoInfo]

ALLOWED ==
    {<<"p", "n", "g">>, <<"j", "p", "g">>, <<"j", "p", "e", "g">>,
     <<"w", "e", "b", "p">>, <<"b", "m", "p">>}

allowed_file(filename) ==
    Contains(filename, ".") /\ Lower(RSplitLast(filename, ".")) \in ALLOWED

(* Uploaded payloads: two leaf photographs and a payload that is no image *)
Payloads == {"leafA", "leafB", "junk"}

(* Image.open: raises on a payload that is not an image *)
_preprocess(bytes) == [ok |-> bytes # "junk", tensor |-> bytes]

(* forward pass, softmax, max; confidence in hundredths of a percent *)
ModelOutput ==
    [leafA |-> [pred |-> 3, confidence |-> 9731],
     leafB |-> [pred |-> NumClasses - 1, confidence |-> 5102]]

predict_with_confidence(bytes) ==
    IF _preprocess(bytes).ok
    THEN [ok |-> TRUE, pred |-> ModelOutput[bytes].pred,
          confidence |-> ModelOutput[bytes].confidence]
    ELSE [ok |-> FALSE, pred |-> -1, confidence |-> 0]

FilePng == <<"l", ".", "P", "n", "G">>
FileTxt == <<"l", ".", "t", "x", "t">>
FileNoDot == <<"p", "n", "g">>

FileNames == {Empty, FilePng, FileTxt, FileNoDot}

NoUpload == [has_image |-> FALSE, filename |-> Empty, bytes |-> "junk"]

Uploads ==
    {NoUpload}
    \cup {[has_image |-> TRUE, filename |-> FilePng, bytes |-> b] : b \in Payloads}
    \cup {[has_image |-> TRUE, filename |-> f, bytes |-> "leafA"] : f \in FileNames}

(* os.path.join(UPLOAD_DIR, filename) *)
UploadPath(filename) == <<"static/uploads", filename>>

Paths == {UploadPath(f) : f \in FileNames \ {Empty}}

NoFile == [bytes |-> "absent", writer |-> 0]

----------------------------------------------------------------------------
(* db.py: the predictions collection *)

Date(t) == [bson |-> "date", t |-> t]

IsoString(t) == [bson |-> "string", t |-> t]

save_predictionMislabelled(image_filename, disease_name, confidence, details) ==
    [_id |-> nextId,
     image_filename |-> image_filename,
     disease_name |-> details.description,
     confidence |-> confidence,
     description |-> details.description,
     possible_steps |-> details.possible_steps,
     supplement |-> details.supplement,
     created_at |-> Date(now)]

save_prediction(image_filename, disease_name, confidence, details) ==
    [_id |-> nextId,
     image_filename |-> image_filename,
     disease_name |-> disease_name,
     confidence |-> confidence,
     description |-> details.description,
     possible_steps |-> details.possible_steps,
     supplement |-> details.supplement,
     created_at |-> Date(now)]

(* BSON comparison order: a string sorts below a date *)
TypeRank(v) == IF v.bson = "string" THEN 1 ELSE 2

BsonLeq(a, b) ==
    \/ TypeRank(a) < TypeRank(b)
    \/ TypeRank(a) = TypeRank(b) /\ a.t <= b.t

(* the orders find().sort("created_at", -1) may produce *)
SortedDescending(col) ==
    {p \in [1..Len(col) -> 1..Len(col)] :
        /\ \A i, j \in 1..Len(col) : i # j => p[i] # p[j]
        /\ \A i \in 1..(Len(col) - 1) :
              BsonLeq(col[p[i + 1]].created_at, col[p[i]].created_at)}

Abs(n) == IF n < 0 THEN -n ELSE n

(* cursor.limit(n): 0 is no limit, a negative n is a single batch of |n| *)
Limit(n, len) == IF n = 0 \/ Abs(n) > len THEN len ELSE Abs(n)

get_recent_predictions(limit, order) ==
    [i \in 1..Limit(limit, Len(predictions)) |->
        [predictions[order[i]] EXCEPT !._id = StrId(@)]]

----------------------------------------------------------------------------
(* app.py: POST /api/predict and POST /submit *)

NoBodyOut == [prediction |-> NoInfo, confidence |-> 0]

(* a response of a prediction route; wrote, inferred, saved, input and
   clobbered record what the request did before it answered *)
PredictResponse(route, upload, status, json, success, body, did) ==
    [route |-> route, status |-> status, json |-> json, success |-> success,
     req |-> upload, body |-> body, wrote |-> did.wrote,
     inferred |-> did.inferred, saved |-> did.saved,
     own |-> did.own, clobbered |-> did.clobbered]

Nothing ==
    [wrote |-> FALSE, inferred |-> FALSE, saved |-> FALSE, own |-> FALSE,
     clobbered |-> FALSE]

SaveUploadKeepExisting(w, route, upload) ==
    /\ files' = [files EXCEPT ![UploadPath(upload.filename)] =
                    IF @ = NoFile THEN [bytes |-> upload.bytes, writer |-> w] ELSE @]
    /\ slots' = [v \in Workers |->
                    IF v = w
                    THEN [pc |-> "infer", route |-> route, upload |-> upload,
                          path |-> UploadPath(upload.filename), clobbered |-> FALSE]
                    ELSE IF slots[v].pc = "infer"
                            /\ slots[v].path = UploadPath(upload.filename)
                    THEN [slots[v] EXCEPT !.clobbered = TRUE]
                    ELSE slots[v]]
    /\ last' = last

(* image.save(file_path), taken as one step: the file holds what was written
   last.  clobbered marks the requests that saved under the same path and
   have not read the file back yet. *)
SaveUpload(w, route, upload) ==
    /\ files' = [files EXCEPT ![UploadPath(upload.filename)] =
                    [bytes |-> upload.bytes, writer |-> w]]
    /\ slots' = [v \in Workers |->
                    IF v = w
                    THEN [pc |-> "infer", route |-> route, upload |-> upload,
                          path |-> UploadPath(upload.filename), clobbered |-> FALSE]
                    ELSE IF slots[v].pc = "infer"
                            /\ slots[v].path = UploadPath(upload.filename)
                    THEN [slots[v] EXCEPT !.clobbered = TRUE]
                    ELSE slots[v]]
    /\ last' = last

(* api_predict, lines 118-131 *)
ApiPredictSave(w, upload) ==
    /\ CanStart(w)
    /\ nreq < MaxPredictionRequests
    /\ nreq' = nreq + 1
    /\ IF ~upload.has_image \/ upload.filename = Empty
          \/ ~allowed_file(upload.filename)
       THEN /\ last' = PredictResponse("api_predict", upload, 400, TRUE, FALSE,
                                       NoBodyOut, Nothing)
            /\ UNCHANGED <<files, slots>>
       ELSE SaveUpload(w, "api_predict", upload)
    /\ UNCHANGED <<users, predictions, tokens, dbUp, now, nextId, probe>>

(* submit, lines 70-74: request.files["image"] answers 400 on a missing key,
   saving to the directory path of an empty filename raises *)
SubmitSave(w, upload) ==
    /\ CanStart(w)
    /\ nreq < MaxPredictionRequests
    /\ nreq' = nreq + 1
    /\ IF ~upload.has_image
       THEN /\ last' = PredictResponse("submit", upload, 400, FALSE, FALSE,
                                       NoBodyOut, Nothing)
            /\ UNCHANGED <<files, slots>>
       ELSE IF upload.filename = Empty
       THEN /\ last' = PredictResponse("submit", upload, 500, FALSE, FALSE,
                                       NoBodyOut, Nothing)
            /\ UNCHANGED <<files, slots>>
       ELSE SaveUpload(w, "submit", upload)
    /\ UNCHANGED <<users, predictions, tokens, dbUp, now, nextId, probe>>

(* an exception on the prediction path: api_predict's except clause answers
   500 with success false, submit lets it escape to Flask's 500 page *)
PredictError(route, upload, did) ==
    PredictResponse(route, upload, 500, route = "api_predict", FALSE, NoBodyOut, did)

(* api_predict lines 142-145, submit lines 85-95 *)
PredictSuccess(route, upload, pred, confidence, info, did) ==
    IF route = "api_predict"
    THEN PredictResponse(route, upload, 200, TRUE, TRUE,
                         [prediction |-> info, confidence |-> confidence], did)
    ELSE PredictResponse(route, upload, 200, FALSE, FALSE,
                         [prediction |-> info, pred |-> pred], did)

(* info = get_disease_info(pred) inside the handler: a KeyError ends the
   request with the route's error response *)
LookupStep(route, upload, pred, did) ==
    LET looked == get_disease_info(pred)
    IN IF looked.ok
       THEN [ok |-> TRUE, info |-> looked.info,
             response |-> PredictResponse(route, upload, 0, FALSE, FALSE, NoBodyOut, did)]
       ELSE [ok |-> FALSE, info |-> NoInfo,
             response |-> PredictError(route, upload, did)]

(* predict_with_confidence(file_path) and get_disease_info(pred) *)
Infer(w) ==
    /\ slots[w].pc = "infer"
    /\ LET s == slots[w]
           content == files[s.path]
           did == [wrote |-> TRUE, inferred |-> TRUE, saved |-> FALSE,
                   own |-> (content.writer = w), clobbered |-> s.clobbered]
           out == predict_with_confidence(content.bytes)
           looked == LookupStep(s.route, s.upload, out.pred, did)
       IN IF out.ok /\ looked.ok
          THEN /\ slots' = [slots EXCEPT ![w] =
                              [pc |-> "persist", route |-> s.route,
                               upload |-> s.upload, path |-> s.path,
                               pred |-> out.pred, confidence |-> out.confidence,
                               info |-> looked.info, did |-> did]]
               /\ last' = last
          ELSE /\ slots' = [slots EXCEPT ![w] = Idle]
               /\ last' = PredictError(s.route, s.upload, did)
    /\ UNCHANGED <<users, predictions, files, tokens, dbUp, now, nextId, nreq, probe>>

PersistOrFail(w) ==
    /\ slots[w].pc = "persist"
    /\ LET s == slots[w]
           doc == save_prediction(s.upload.filename, s.info.disease_name,
                                  s.confidence, s.info)
       IN IF dbUp
          THEN /\ predictions' = Append(predictions, doc)
               /\ nextId' = nextId + 1
               /\ last' = PredictSuccess(s.route, s.upload, s.pred, s.confidence,
                                         s.info, [s.did EXCEPT !.saved = TRUE])
          ELSE /\ UNCHANGED <<predictions, nextId>>
               /\ last' = PredictError(s.route, s.upload, s.did)
    /\ slots' = [slots EXCEPT ![w] = Idle]
    /\ UNCHANGED <<users, files, tokens, dbUp, now, nreq, probe>>

(* the try block around db.save_prediction, then the response *)
Persist(w) ==
    /\ slots[w].pc = "persist"
    /\ LET s == slots[w]
           doc == save_prediction(s.upload.filename, s.info.disease_name,
                                  s.confidence, s.info)
       IN /\ IF dbUp
             THEN /\ predictions' = Append(predictions, doc)
                  /\ nextId' = nextId + 1
             ELSE UNCHANGED <<predictions, nextId>>
          /\ last' = PredictSuccess(s.route, s.upload, s.pred, s.confidence, s.info,
                                    [s.did EXCEPT !.saved = dbUp])
    /\ slots' = [slots EXCEPT ![w] = Idle]
    /\ UNCHANGED <<users, files, tokens, dbUp, now, nreq, probe>>

----------------------------------------------------------------------------
(* app.py: GET /api/history, GET /api/health, GET /test-db *)

Limits == {-1, 0, 1, 2}

NoLimitArg == [present |-> FALSE, value |-> 0]

LimitArgs == {NoLimitArg} \cup {[present |-> TRUE, value |-> n] : n \in Limits}

api_history(arg) ==
    /\ nreq < MaxPredictionRequests
    /\ nreq' = nreq + 1
    /\ LET limit == IF arg.present THEN arg.value ELSE DefaultLimit
       IN IF dbUp
          THEN \E order \in SortedDescending(predictions) :
                  last' = [route |-> "history", status |-> 200, success |-> TRUE,
                           limit |-> limit,
                           predictions |-> get_recent_predictions(limit, order)]
          ELSE last' = [route |-> "history", status |-> 500, success |-> FALSE,
                        limit |-> limit, predictions |-> <<>>]
    /\ UNCHANGED <<users, predictions, files, slots, tokens, dbUp, now, nextId, probe>>

ping == dbUp

api_health ==
    /\ nreq < MaxPredictionRequests
    /\ nreq' = nreq + 1
    /\ last' = [route |-> "health", status |-> IF ping THEN 200 ELSE 503,
                mongodb |-> IF ping THEN "connected" ELSE "disconnected"]
    /\ UNCHANGED <<users, predictions, files, slots, tokens, dbUp, now, nextId, probe>>

(* test_db lines 199-206: the document it inserts into predictions_col *)
test_doc ==
    [_id |-> nextId, type |-> "connection_test",
     message |-> "Hello from PlantGuard AI!", created_at |-> IsoString(now)]

test_db ==
    /\ nreq < MaxPredictionRequests
    /\ nreq' = nreq + 1
    /\ IF ping
       THEN /\ predictions' = Append(predictions, test_doc)
            /\ nextId' = nextId + 1
            /\ last' = [route |-> "test_db", status |-> 200,
                        total |-> Len(predictions) + 1]
       ELSE /\ last' = [route |-> "test_db", status |-> 500, total |-> 0]
            /\ UNCHANGED <<predictions, nextId>>
    /\ UNCHANGED <<users, files, slots, tokens, dbUp, now, probe>>

----------------------------------------------------------------------------
(* Environment: the store becomes unreachable or reachable, time passes *)

StoreFlips ==
    /\ dbUp' = ~dbUp
    /\ UNCHANGED <<users, predictions, files, slots, last, tokens, now, nextId,
                   nreq, probe>>

Tick ==
    /\ now + TickHours <= MaxTime
    /\ now' = now + TickHours
    /\ UNCHANGED <<users, predictions, files, slots, last, tokens, dbUp, nextId,
                   nreq, probe>>

----------------------------------------------------------------------------
(* The application *)

NoProbe == [stage |-> "none"]

Init ==
    /\ users = {}
    /\ predictions = <<>>
    /\ files = [p \in Paths |-> NoFile]
    /\ slots = [w \in Workers |-> Idle]
    /\ last = [route |-> "none", status |-> 0]
    /\ tokens = {}
    /\ dbUp = TRUE
    /\ now = 0
    /\ nextId = 1
    /\ nreq = 0
    /\ probe = NoProbe

Next ==
    \/ \E w \in Workers, body \in SignupBodies : SignupCheck(w, body)
    \/ \E w \in Workers : SignupCreate(w)
    \/ \E body \in LoginBodies : login(body)
    \/ \E header \in Headers : protected(header)
    \/ \E w \in Workers, upload \in Uploads : ApiPredictSave(w, upload)
    \/ \E w \in Workers, upload \in Uploads : SubmitSave(w, upload)
    \/ \E w \in Workers : Infer(w)
    \/ \E w \in Workers : Persist(w)
    \/ \E arg \in LimitArgs : api_history(arg)
    \/ api_health
    \/ test_db
    \/ StoreFlips
    \/ Tick

Spec == Init /\ [][Next]_vars

(* The account handlers touch only users and tokens, the prediction handlers
   only files and predictions; both see the same environment.  Each group is
   checked on its own, with its own bound on the number of requests. *)
NextAuth ==
    \/ \E w \in Workers, body \in SignupBodies : SignupCheck(w, body)
    \/ \E w \in Workers : SignupCreate(w)
    \/ \E body \in LoginBodies : login(body)
    \/ \E header \in Headers : protected(header)
    \/ StoreFlips
    \/ Tick

SpecAuth == Init /\ [][NextAuth]_vars

NextPredict ==
    \/ \E w \in Workers, upload \in Uploads : ApiPredictSave(w, upload)
    \/ \E w \in Workers, upload \in Uploads : SubmitSave(w, upload)
    \/ \E w \in Workers : Infer(w)
    \/ \E w \in Workers : Persist(w)
    \/ \E arg \in LimitArgs : api_history(arg)
    \/ api_health
    \/ test_db
    \/ StoreFlips
    \/ Tick

SpecPredict == Init /\ [][NextPredict]_vars

----------------------------------------------------------------------------
(* The catalog lookup as a function of the class index: every index around
   the table is looked up on both prediction routes *)

LookupMargin == 2

LookupInputs == (0 - LookupMargin)..(NumClasses - 1 + LookupMargin)

ProbeUpload == [has_image |-> TRUE, filename |-> FilePng, bytes |-> "leafA"]

ProbeDid ==
    [wrote |-> TRUE, inferred |-> TRUE, saved |-> FALSE, own |-> TRUE,
     clobbered |-> FALSE]

InitLookup ==
    /\ users = {}
    /\ predictions = <<>>
    /\ files = [p \in Paths |-> NoFile]
    /\ slots = [w \in Workers |-> Idle]
    /\ last = [route |-> "none", status |-> 0]
    /\ tokens = {}
    /\ dbUp = TRUE
    /\ now = 0
    /\ nextId = 1
    /\ nreq = 0
    /\ probe \in {[stage |-> "call", route |-> r, index |-> i] :
                    r \in {"api_predict", "submit"}, i \in LookupInputs}

LookupCall ==
    /\ probe.stage = "call"
    /\ probe' = [stage |-> "returned", route |-> probe.route, index |-> probe.index,
                 result |-> get_disease_info(probe.index),
                 step |-> LookupStep(probe.route, ProbeUpload, probe.index, ProbeDid)]
    /\ UNCHANGED <<users, predictions, files, slots, last, tokens, dbUp, now,
                   nextId, nreq>>

NextLookup == LookupCall

SpecLookup == InitLookup /\ [][NextLookup]_vars

----------------------------------------------------------------------------
(* Properties of the account routes, under SpecAuth *)

EmailOf(body) == Lower(Strip(body.email))

WellFormedSignup(body) ==
    body.json /\ Strip(body.name) # Empty /\ EmailOf(body) # Empty
    /\ body.password # Empty

(* C1 as stated: every POST /signup whose normalised email is already
   registered is answered 409 with success false and never reaches
   create_user, so that the users collection is unchanged. *)
C1_DuplicateAlways409 ==
    /\ \A w \in Workers : slots[w].pc = "create" => ~slots[w].existed
    /\ (last.route = "signup" /\ last.req.json /\ last.existed) =>
          /\ last.status = 409
          /\ ~last.success
          /\ last.user_id = NoId

(* C1 amended: a POST /signup whose normalised email is already registered
   never reaches create_user and never succeeds; it is answered 409 when its
   name and password are non-empty and the store answers the lookup, 400 when
   the name or the password is empty, 500 when the store is unreachable. *)
C1_DuplicateRejected ==
    /\ \A w \in Workers : slots[w].pc = "create" => ~slots[w].existed
    /\ (last.route = "signup" /\ last.req.json /\ last.existed) =>
          /\ ~last.success
          /\ last.user_id = NoId
          /\ IF ~WellFormedSignup(last.req) THEN last.status = 400
             ELSE IF last.up THEN last.status = 409
             ELSE last.status = 500

C1_Witness ==
    /\ last.route = "signup"
    /\ last.existed
    /\ last.status = 409
    /\ last.req.email = EmailAPadded
    /\ \E u \in users : u.email = EmailA

(* C2 as stated: no two accounts share an email, and a well-formed signup
   answered while the store is reachable, whose email is registered by
   another request, is answered 409. *)
C2_UniqueAndLoser409 ==
    /\ \A u1, u2 \in users : u1.email = u2.email => u1 = u2
    /\ (/\ last.route = "signup"
        /\ WellFormedSignup(last.req)
        /\ last.up
        /\ \E u \in users : u.email = EmailOf(last.req) /\ StrId(u._id) # last.user_id)
       => last.status = 409

MatchingAccounts(body) ==
    {u \in users : /\ u.email = EmailOf(body)
                   /\ u.password.digest = <<u.password.salt, body.password>>}

IssuedBy(jwt) == {t \in tokens : t.jwt = jwt}

(* C6 as stated: login answers 200 with a token only on a matching password,
   401 without a token on a wrong password or an unknown email; /protected
   answers an issued unexpired token with the id of the account that logged
   in, and a missing or invalid token with 401. *)
C6_LoginAndProtected401 ==
    /\ last.route = "login" =>
          /\ last.status = 200 =>
                /\ MatchingAccounts(last.req) # {}
                /\ IssuedBy(last.access_token) # {}
          /\ (last.req.json /\ MatchingAccounts(last.req) = {}) =>
                /\ last.status = 401
                /\ last.access_token = NoToken
    /\ last.route = "protected" =>
          /\ (IssuedBy(last.req.jwt) # {} /\ last.at < last.req.jwt.exp) =>
                /\ last.status = 200
                /\ \A t \in IssuedBy(last.req.jwt) : last.user_id = StrId(t.owner)
          /\ (~last.req.present \/ IssuedBy(last.req.jwt) = {}) =>
                last.status = 401

(* C6 amended: login answers 200 with a token only on a matching password;
   with a non-empty email and password and the store reachable, a wrong
   password or an unknown email is answered 401; an empty email or password is
   answered 400; no answer other than 200 carries a token.  /protected
   answers an issued unexpired token with the id of the account that logged
   in, a missing or expired token with 401, and a token that fails
   verification with 422; no answer other than 200 carries a user id. *)
C6_LoginAndProtected ==
    /\ last.route = "login" =>
          /\ last.status = 200 =>
                /\ MatchingAccounts(last.req) # {}
                /\ IssuedBy(last.access_token) # {}
                /\ \A t \in IssuedBy(last.access_token) :
                      /\ t.owner \in {u._id : u \in MatchingAccounts(last.req)}
                      /\ last.user.id = StrId(t.owner)
          /\ last.status # 200 => last.access_token = NoToken
          /\ (/\ last.req.json
              /\ EmailOf(last.req) # Empty
              /\ last.req.password # Empty
              /\ last.up
              /\ MatchingAccounts(last.req) = {}) => last.status = 401
          /\ (last.req.json /\ (EmailOf(last.req) = Empty \/ last.req.password = Empty))
                => last.status = 400
    /\ last.route = "protected" =>
          /\ (IssuedBy(last.req.jwt) # {} /\ last.at < last.req.jwt.exp) =>
                /\ last.status = 200
                /\ \A t \in IssuedBy(last.req.jwt) : last.user_id = StrId(t.owner)
          /\ ~last.req.present => last.status = 401
          /\ (IssuedBy(last.req.jwt) # {} /\ last.at >= last.req.jwt.exp) =>
                last.status = 401
          /\ (last.req.present /\ IssuedBy(last.req.jwt) = {}) => last.status = 422
          /\ last.status # 200 => last.user_id = NoId

C6_Witness ==
    /\ last.route = "protected"
    /\ last.status = 200
    /\ \E u \in users : last.user_id = StrId(u._id)
    /\ IssuedBy(last.req.jwt) # {}

----------------------------------------------------------------------------
(* Properties of the prediction routes, under SpecPredict *)

PredictRoutes == {"api_predict", "submit"}

HasAllowedExtension(filename) ==
    \E k \in 1..Len(filename) :
        /\ filename[k] = "."
        /\ \A j \in (k + 1)..Len(filename) : filename[j] # "."
        /\ Lower(SubSeq(filename, k + 1, Len(filename))) \in
              {<<"p", "n", "g">>, <<"j", "p", "g">>, <<"j", "p", "e", "g">>,
               <<"w", "e", "b", "p">>, <<"b", "m", "p">>}

AcceptableUpload(upload) ==
    upload.has_image /\ upload.filename # Empty /\ HasAllowedExtension(upload.filename)

(* C3 as stated: on both upload routes a request without image field, with an
   empty filename or with an extension outside png, jpg, jpeg, webp, bmp never
   gets past validation (no file written, no inference, no record), and the
   API answers it 400 with success false. *)
C3_RejectedBeforeSideEffects ==
    /\ \A w \in Workers :
          slots[w].pc \in {"infer", "persist"} => AcceptableUpload(slots[w].upload)
    /\ \A p \in Paths :
          files[p] # NoFile => \E f \in FileNames : p = UploadPath(f) /\ HasAllowedExtension(f)
    /\ (last.route \in PredictRoutes /\ ~AcceptableUpload(last.req)) =>
          /\ ~last.wrote /\ ~last.inferred /\ ~last.saved
          /\ last.route = "api_predict" =>
                (last.status = 400 /\ last.json /\ ~last.success)

(* C4: when inference and lookup have succeeded, the answer is the successful
   one whether or not save_prediction succeeds (200, and on the API success
   true with the catalog fields and the confidence); a failed write adds no
   record and ends the request without another attempt. *)
C4_BestEffortPersistence ==
    [][\A w \in Workers :
          (slots[w].pc = "persist" /\ slots'[w] # slots[w]) =>
             /\ slots'[w] = Idle
             /\ last'.route = slots[w].route
             /\ last'.req = slots[w].upload
             /\ last'.status = 200
             /\ last'.body.prediction = slots[w].info
             /\ slots[w].route = "api_predict" =>
                   /\ last'.json /\ last'.success
                   /\ last'.body.confidence = slots[w].confidence
             /\ ~dbUp => (predictions' = predictions /\ ~last'.saved)]_vars

C4_Witness ==
    /\ last.route = "api_predict"
    /\ last.status = 200
    /\ last.success
    /\ ~last.saved
    /\ predictions = <<>>

CreatedAt(doc) == doc.created_at.t

Max(a, b) == IF a > b THEN a ELSE b

(* C5 as stated: for every integer limit, 0 and negative values included,
   /api/history returns at most limit records (none for a limit below one),
   each created no earlier than the one after it. *)
C5_BoundedNewestFirst ==
    (last.route = "history" /\ last.status = 200) =>
       /\ Len(last.predictions) <= Max(last.limit, 0)
       /\ \A i \in 1..(Len(last.predictions) - 1) :
             CreatedAt(last.predictions[i]) >= CreatedAt(last.predictions[i + 1])

(* C8: prediction records are append-only and one per success: the step that
   ends a request after inference and lookup appends, with the store
   reachable, exactly one record carrying the request's filename, disease
   name and confidence; a step that rejects or fails a request appends
   nothing; no step changes or removes a stored record. *)
C8_AppendOnlyOnePerSuccess ==
    [][/\ Len(predictions') >= Len(predictions)
       /\ \A i \in 1..Len(predictions) : predictions'[i] = predictions[i]
       /\ \A w \in Workers :
             (slots[w].pc = "persist" /\ slots'[w] # slots[w] /\ dbUp) =>
                /\ Len(predictions') = Len(predictions) + 1
                /\ LET doc == predictions'[Len(predictions')]
                   IN /\ doc.image_filename = slots[w].upload.filename
                      /\ doc.disease_name = slots[w].info.disease_name
                      /\ doc.disease_name = DiseaseCell("disease_name", slots[w].pred)
                      /\ doc.confidence = slots[w].confidence
       /\ \A w \in Workers :
             (slots[w].pc = "infer" /\ slots'[w] # slots[w]) =>
                predictions' = predictions
       /\ (last' # last /\ last'.route \in PredictRoutes /\ last'.status # 200) =>
             predictions' = predictions]_vars

C8_Witness ==
    /\ Len(predictions) = 2
    /\ last.route \in PredictRoutes
    /\ last.status = 200
    /\ last.saved
    /\ predictions[2].image_filename = last.req.filename

(* C9: the classifier reads whatever was written last under the filename: a
   request's result comes from its own upload exactly when no other request
   has saved under the same filename since its own save, and the result is
   the classifier's output on the bytes found in the file. *)
C9_LastWriteWins ==
    [][\A w \in Workers :
          (slots[w].pc = "infer" /\ slots'[w].pc # "infer") =>
             LET content == files[UploadPath(slots[w].upload.filename)]
             IN /\ (content.writer = w) <=> ~slots[w].clobbered
                /\ content.writer = w => content.bytes = slots[w].upload.bytes
                /\ slots'[w].pc = "persist" =>
                      /\ content.bytes # "junk"
                      /\ slots'[w].pred = ModelOutput[content.bytes].pred
                      /\ slots'[w].confidence = ModelOutput[content.bytes].confidence
                      /\ slots'[w].did.own = (content.writer = w)
                /\ slots'[w].pc = "idle" => content.bytes = "junk"]_vars

(* two overlapping requests, same filename, different images: one of them is
   answered from the other's bytes *)
C9_Witness ==
    \E w \in Workers :
        /\ slots[w].pc = "persist"
        /\ ~slots[w].did.own
        /\ slots[w].did.clobbered
        /\ slots[w].upload.bytes = "leafA"
        /\ slots[w].pred = ModelOutput["leafB"].pred

IsPredictionRecord(doc) ==
    /\ {"image_filename", "disease_name", "confidence", "created_at"} \subseteq DOMAIN doc
    /\ doc.created_at.bson = "date"

(* C10 as stated: every document of the predictions collection, and so
   everything /api/history returns, is a prediction record written by
   save_prediction. *)
C10_OnlyPredictionRecords ==
    /\ \A i \in 1..Len(predictions) : IsPredictionRecord(predictions[i])
    /\ (last.route = "history" /\ last.status = 200) =>
          \A i \in 1..Len(last.predictions) : IsPredictionRecord(last.predictions[i])

----------------------------------------------------------------------------
(* Properties of the catalog lookup, under SpecLookup *)

(* C7: get_disease_info(i) returns, for every i in 0..38, the record merged
   from row i of the disease table and row i of the supplement table; for any
   other index it fails and returns no record, and the prediction route
   answers 500 without success. *)
C7_LookupTotalOnClasses ==
    probe.stage = "returned" =>
       IF probe.index \in 0..38
       THEN /\ probe.result.ok
            /\ probe.step.ok
            /\ probe.step.info = probe.result.info
            /\ probe.result.info.disease_name = DiseaseCell("disease_name", probe.index)
            /\ probe.result.info.description = DiseaseCell("description", probe.index)
            /\ probe.result.info.possible_steps = DiseaseCell("Possible Steps", probe.index)
            /\ probe.result.info.disease_image_url = DiseaseCell("image_url", probe.index)
            /\ probe.result.info.supplement.name =
                  SupplementCell("supplement name", probe.index)
            /\ probe.result.info.supplement.image_url =
                  SupplementCell("supplement image", probe.index)
            /\ probe.result.info.supplement.buy_link =
                  SupplementCell("buy link", probe.index)
       ELSE /\ ~probe.result.ok
            /\ probe.result.info = NoInfo
            /\ ~probe.step.ok
            /\ probe.step.response.status = 500
            /\ ~probe.step.response.success
            /\ probe.route = "api_predict" => probe.step.response.json

C7_Witness ==
    /\ probe.stage = "returned"
    /\ probe.index = -1
    /\ ~probe.result.ok
    /\ probe.step.response.status = 500

====
